---- MODULE Spec2Model ----
(***************************************************************************)
(* Neighbor-list lifecycle of GPUMD, src/src/neighbor.cu.                  *)
(*                                                                         *)
(* Lengths (positions, box lengths, the cutoff rc) are integers counted in *)
(* units of 0.5, the value of HALF.  Every such value, and every sum,      *)
(* difference and product of them that the code forms on the modelled      *)
(* inputs, is exactly representable in the code's `real`, so the integer   *)
(* arithmetic below is the code's arithmetic on these inputs.              *)
(***************************************************************************)
EXTENDS Integers, Sequences, FiniteSets, TLC

(***************************************************************************)
(* Program constants                                                       *)
(***************************************************************************)
HALF == 1
DIM == 3
NUM_OF_CELLS == 50
BLOCK_SIZE == 128
REDUCE_BLOCK == 1024
WARP_SIZE == 32

(***************************************************************************)
(* Run parameters (para->N, para->neighbor.MN) and model bounds            *)
(***************************************************************************)
N == 4
MN == 1
MaxNN == MN + 1
MaxMoves == 2
MaxApply == 2
FarPos == 5

Atoms == 0 .. (N - 1)
Axes == 1 .. DIM

VARIABLES
    x,        \* atom->x, y, z : current positions, x[n][a]
    x0,       \* atom->x0, y0, z0 : reference positions
    NN,       \* atom->NN : neighbor counts
    xb,       \* the positions the last builder run read (what atom->NL was built from)
    cells,    \* the cell counts handed to find_neighbor_ON1 by the last selection
    box,      \* atom->box_length
    pbc,      \* para->pbc_x, pbc_y, pbc_z
    rc,       \* para->neighbor.rc
    debug,    \* whether the build defines DEBUG
    exited,   \* the process has called exit(1)
    built,    \* the caller has made its bootstrap call
    arg,      \* the is_first argument of the last driver call
    calls,    \* the operations run by the last call, in order
    update,   \* the value check_atom_distance returned in the last call
    printed,  \* the diagnostics check_bound printed in the last call
    nmoves,   \* number of external position updates so far
    hist,     \* the positions before each lone gpu_apply_pbc launch (SpecPbc)
    npart,    \* para->N of a lone check_atom_distance call (SpecOrd)
    hostpc,   \* how far the host is in check_atom_distance
    stream,   \* the kernels launched on the default stream and not yet complete
    dev_s1,   \* the device array s1 (g_sum of stage 1, g_sum_i of stage 2)
    dev_s2,   \* the device scalar s2 (g_sum_o[0])
    read2     \* the pairs <<n, g_sum_i[n]>> check_atom_distance_2 has read

ordvars == <<npart, hostpc, stream, dev_s1, dev_s2, read2>>

vars == <<x, x0, NN, xb, cells, box, pbc, rc, debug, exited, built, arg,
          calls, update, printed, nmoves, hist, npart, hostpc, stream, dev_s1,
          dev_s2, read2>>

(***************************************************************************)
(* Small helpers                                                           *)
(***************************************************************************)
Min(a, b) == IF a < b THEN a ELSE b

\* the value of s_sum[i]; entries outside DOMAIN s are entries that hold 0
\* from their initialisation (lines 66, 102) to the end of the kernel
SAt(s, i) == IF i \in DOMAIN s THEN s[i] ELSE 0

\* the thread indices n = blockIdx.x * blockDim.x + threadIdx.x of a launch
\* <<<(Nn - 1) / BLOCK_SIZE + 1, BLOCK_SIZE>>>
GridThreads(Nn) == 0 .. (((Nn - 1) \div BLOCK_SIZE + 1) * BLOCK_SIZE - 1)

(***************************************************************************)
(* DisplacementMonitor: check_atom_distance_1, _2, warp_reduce             *)
(***************************************************************************)
d2 == HALF * HALF

\* dx * dx + dy * dy + dz * dz of lines 70-73
DispSq(pnew, pold) ==
    (pnew[1] - pold[1]) * (pnew[1] - pold[1])
    + (pnew[2] - pold[2]) * (pnew[2] - pold[2])
    + (pnew[3] - pold[3]) * (pnew[3] - pold[3])

\* s_sum of block bid after lines 66-77.  Threads with n >= Nn leave their
\* entry 0; the function is kept on the threads with n < Nn only.
Flags1(bid, Nn, dd2, x_old, x_new) ==
    [tid \in 0 .. (Min(REDUCE_BLOCK, Nn - bid * REDUCE_BLOCK) - 1) |->
        LET n == bid * REDUCE_BLOCK + tid
        IN  IF DispSq(x_new[n], x_old[n]) > dd2 THEN 1 ELSE 0]

\* one halving step followed by __syncthreads(): every thread tid < k reads
\* s_sum[tid + k], which no thread writes in this step
SyncStep(s, k) ==
    [t \in DOMAIN s |-> IF t < k THEN s[t] + SAt(s, t + k) ELSE s[t]]

\* lines 80-83 (and 114-117)
SyncPhase(s) == SyncStep(SyncStep(SyncStep(SyncStep(s, 512), 256), 128), 64)

\* the strides of warp_reduce, in program order
WarpStrides == <<32, 16, 8, 4, 2, 1>>

\* the steps of thread t that can change s: a step that reads an entry
\* outside DOMAIN s adds 0 and rewrites s[t] with the value it holds
EffStrides(s, t) == SelectSeq(WarpStrides, LAMBDA k : (t + k) \in DOMAIN s)

WarpThreads(s) == {t \in DOMAIN s : t < WARP_SIZE}

\* thread t executes its next statement s[t] += s[t + k]; st.todo[t] holds
\* the strides of the statements it has not yet executed
WarpStep(st, t) ==
    LET k == Head(st.todo[t])
    IN  [s    |-> [st.s EXCEPT ![t] = @ + st.s[t + k]],
         todo |-> [st.todo EXCEPT ![t] = Tail(@)]]

WarpEnabled(st) == {t \in DOMAIN st.todo : st.todo[t] # <<>>}

RECURSIVE WarpReach(_, _)
WarpReach(frontier, seen) ==
    IF frontier = {} THEN seen
    ELSE LET nxt == UNION {{WarpStep(st, t) : t \in WarpEnabled(st)} : st \in frontier}
         IN  WarpReach(nxt \ seen, seen \cup nxt)

\* warp_reduce run by the threads tid < 32 of one block with no barrier
\* between its statements: the values s_sum can hold when all have finished,
\* over the interleavings of the threads' statements
warp_reduce(s) ==
    LET st0 == [s |-> s, todo |-> [t \in WarpThreads(s) |-> EffStrides(s, t)]]
        all == WarpReach({st0}, {st0})
    IN  {st.s : st \in {u \in all : WarpEnabled(u) = {}}}

\* the values thread 0 can find in s_sum[0] at lines 86-89 / 120-123
ReduceOutcomes(s) == {r[0] : r \in warp_reduce(SyncPhase(s))}

\* the arrays g_sum that check_atom_distance_1<<<M, 1024>>> can leave
check_atom_distance_1(Nn, dd2, x_old, x_new) ==
    LET M == (Nn - 1) \div REDUCE_BLOCK + 1
        out(b) == ReduceOutcomes(Flags1(b, Nn, dd2, x_old, x_new))
    IN  {g \in [0 .. (M - 1) -> UNION {out(b) : b \in 0 .. (M - 1)}] :
            \A b \in 0 .. (M - 1) : g[b] \in out(b)}

\* lines 104-111: thread tid sums g_sum_i[tid + patch * 1024] over the patches
RECURSIVE PatchSum(_, _, _, _)
PatchSum(tid, patch, M, g_sum_i) ==
    IF patch >= (M - 1) \div REDUCE_BLOCK + 1 THEN 0
    ELSE (IF tid + patch * REDUCE_BLOCK < M
          THEN g_sum_i[tid + patch * REDUCE_BLOCK] ELSE 0)
         + PatchSum(tid, patch + 1, M, g_sum_i)

\* the values check_atom_distance_2<<<1, 1024>>> can leave in g_sum_o[0]
check_atom_distance_2(M, g_sum_i) ==
    ReduceOutcomes([tid \in 0 .. (Min(REDUCE_BLOCK, M) - 1) |->
                        PatchSum(tid, 0, M, g_sum_i)])

\* the values check_atom_distance can return
check_atom_distance(Nn, x_old, x_new) ==
    LET M == (Nn - 1) \div REDUCE_BLOCK + 1
    IN  UNION {check_atom_distance_2(M, g) :
                  g \in check_atom_distance_1(Nn, d2, x_old, x_new)}

(***************************************************************************)
(* PeriodicWrapper and reference snapshot                                  *)
(***************************************************************************)
\* Wrap1 with the sign of line 185 wrong
Wrap1_LowerSign(flag, c, l) ==
    IF flag = 1
    THEN IF c < 0 THEN c - l ELSE IF c > l THEN c - l ELSE c
    ELSE c

\* Wrap1 with the sign of line 186 wrong
Wrap1_UpperSign(flag, c, l) ==
    IF flag = 1
    THEN IF c < 0 THEN c + l ELSE IF c > l THEN c + l ELSE c
    ELSE c

\* lines 183-187 for one coordinate
Wrap1(flag, c, l) ==
    IF flag = 1
    THEN IF c < 0 THEN c + l ELSE IF c > l THEN c - l ELSE c
    ELSE c

gpu_apply_pbc(Nn, pbc_x, pbc_y, pbc_z, box_length, pos) ==
    [n \in DOMAIN pos |->
        IF n \in GridThreads(Nn) /\ n < Nn
        THEN <<Wrap1(pbc_x, pos[n][1], box_length[1]),
               Wrap1(pbc_y, pos[n][2], box_length[2]),
               Wrap1(pbc_z, pos[n][3], box_length[3])>>
        ELSE pos[n]]

gpu_update_xyz0(Nn, pos, ref) ==
    [n \in DOMAIN ref |->
        IF n \in GridThreads(Nn) /\ n < Nn THEN pos[n] ELSE ref[n]]

(***************************************************************************)
(* CapacityValidator                                                       *)
(***************************************************************************)
RECURSIVE BoundLoop(_, _, _, _)
BoundLoop(n, Nn, cpu_NN, acc) ==
    IF n >= Nn THEN acc
    ELSE IF cpu_NN[n] > MN
         THEN BoundLoop(n + 1, Nn, cpu_NN,
                        [printed |-> Append(acc.printed, <<n, cpu_NN[n], MN>>),
                         flag |-> 1])
         ELSE BoundLoop(n + 1, Nn, cpu_NN, acc)

\* check_bound with its loop one particle short
check_bound_ShortLoop(Nn, nn) ==
    LET r == BoundLoop(0, Nn - 1, nn, [printed |-> <<>>, flag |-> 0])
    IN  [printed |-> r.printed, exits |-> (r.flag = 1)]

\* check_bound calling exit(1) inside its loop, at the first count above MN
check_bound_ExitAtFirst(Nn, nn) ==
    LET bad == {n \in 0 .. (Nn - 1) : nn[n] > MN}
        first == CHOOSE n \in bad : \A m \in bad : n <= m
    IN  IF bad = {} THEN [printed |-> <<>>, exits |-> FALSE]
        ELSE [printed |-> <<<<first, nn[first], MN>>>>, exits |-> TRUE]

\* what check_bound prints, and whether it calls exit(1)
check_bound(Nn, nn) ==
    LET r == BoundLoop(0, Nn, nn, [printed |-> <<>>, flag |-> 0])
    IN  [printed |-> r.printed, exits |-> (r.flag = 1)]

(***************************************************************************)
(* AlgorithmSelector: find_neighbor(para, atom)                            *)
(***************************************************************************)
\* a * b modulo 2^16, for 0 <= a, b < 2^16, without leaving 32 bits
MulMod16(a, b) == ((((a \div 256) * b) % 65536) * 256 + (a % 256) * b) % 65536

\* the int product a * b of two ints, kept to 32 bits (two's
\* complement), computed on 16-bit halves
Mul32(a, b) ==
    LET al == a % 65536
        ah == (a \div 65536) % 65536
        bl == b % 65536
        bh == (b \div 65536) % 65536
        p0 == (al % 256) * bl                  \* < 2^24
        p1 == (al \div 256) * bl               \* < 2^24, weight 2^8
        low == (p1 % 256) * 256 + (p0 % 65536) \* < 2^17
        l == low % 65536
        h == ((p1 \div 256) + (p0 \div 65536) + (low \div 65536)
              + MulMod16(ah, bl) + MulMod16(al, bh)) % 65536
    IN  IF h >= 32768 THEN (h - 65536) * 65536 + l ELSE h * 65536 + l

\* floor(cpu_box[a] / rc), lines 278, 285, 292
CellCount(len, cutoff) == len \div cutoff

\* the selection without the test of line 299
find_neighbor_select_NoProduct(dbg, p, box_length, cutoff) ==
    IF dbg THEN [method |-> "ON2", cells |-> <<>>]
    ELSE
    LET cell_n_x == IF p[1] # 0 THEN CellCount(box_length[1], cutoff) ELSE 1
        cell_n_y == IF p[2] # 0 THEN CellCount(box_length[2], cutoff) ELSE 1
        cell_n_z == IF p[3] # 0 THEN CellCount(box_length[3], cutoff) ELSE 1
        use_ON2 == \/ p[1] # 0 /\ cell_n_x < 3
                   \/ p[2] # 0 /\ cell_n_y < 3
                   \/ p[3] # 0 /\ cell_n_z < 3
    IN  IF use_ON2 THEN [method |-> "ON2", cells |-> <<>>]
        ELSE [method |-> "ON1", cells |-> <<cell_n_x, cell_n_y, cell_n_z>>]

\* lines 254-312: the builder chosen and the cell counts it is handed
find_neighbor_select(dbg, p, box_length, cutoff) ==
    IF dbg THEN [method |-> "ON2", cells |-> <<>>]
    ELSE
    LET cell_n_x == IF p[1] # 0 THEN CellCount(box_length[1], cutoff) ELSE 1
        cell_n_y == IF p[2] # 0 THEN CellCount(box_length[2], cutoff) ELSE 1
        cell_n_z == IF p[3] # 0 THEN CellCount(box_length[3], cutoff) ELSE 1
        use_ON2 == \/ p[1] # 0 /\ cell_n_x < 3
                   \/ p[2] # 0 /\ cell_n_y < 3
                   \/ p[3] # 0 /\ cell_n_z < 3
                   \/ Mul32(Mul32(cell_n_x, cell_n_y), cell_n_z) < NUM_OF_CELLS
    IN  IF use_ON2 THEN [method |-> "ON2", cells |-> <<>>]
        ELSE [method |-> "ON1", cells |-> <<cell_n_x, cell_n_y, cell_n_z>>]

(***************************************************************************)
(* The host code as transformers of the process state st, each recording   *)
(* itself in st.calls.  After exit(1) nothing more of the call runs.       *)
(***************************************************************************)
\* update and arg when the last step was no such call
NoUpdate == 0 - 1
NoCall == 0 - 1

\* the content of device memory no kernel has written since its cudaMalloc
Unwritten == 0 - 1

\* the state of the variables of a lone check_atom_distance call while no
\* such call is modelled
OrdIdle ==
    /\ npart = N /\ hostpc = "idle" /\ stream = <<>>
    /\ dev_s1 = [b \in 0 .. 0 |-> Unwritten] /\ dev_s2 = Unwritten /\ read2 = {}

Cur ==
    [x |-> x, x0 |-> x0, NN |-> NN, xb |-> xb, cells |-> cells,
     exited |-> exited, calls |-> <<>>, update |-> NoUpdate, printed |-> <<>>]

Ran(st, name) == [st EXCEPT !.calls = Append(@, name)]

\* what a builder run can leave in atom->NN: the same count for every
\* particle, or the last particle alone over the capacity
BuilderOutputs ==
    {[n \in Atoms |-> c] : c \in 0 .. MaxNN}
    \cup {[n \in Atoms |-> IF n = N - 1 THEN MaxNN ELSE 0]}

\* BruteForceBuilder: reads the current positions, overwrites NN (and NL)
find_neighbor_ON2(st, nn) ==
    [Ran(st, "find_neighbor_ON2") EXCEPT !.NN = nn, !.xb = st.x, !.cells = <<>>]

\* CellListBuilder: the same, given the three cell counts
find_neighbor_ON1(st, nn, cell_n_x, cell_n_y, cell_n_z) ==
    [Ran(st, "find_neighbor_ON1") EXCEPT
        !.NN = nn, !.xb = st.x, !.cells = <<cell_n_x, cell_n_y, cell_n_z>>]

\* find_neighbor(para, atom) choosing its builder from the neighbor counts
\* the previous build left
find_neighbor_HistoryDependent(st, nn) ==
    LET sel == find_neighbor_select(debug, pbc, box, rc)
        s1 == Ran(st, "find_neighbor")
    IN  IF sel.method = "ON2" \/ st.NN[0] = MN
        THEN find_neighbor_ON2(s1, nn)
        ELSE find_neighbor_ON1(s1, nn, sel.cells[1], sel.cells[2], sel.cells[3])

\* find_neighbor(para, atom), lines 251-315
find_neighbor(st, nn) ==
    LET sel == find_neighbor_select(debug, pbc, box, rc)
        s1 == Ran(st, "find_neighbor")
    IN  IF sel.method = "ON2"
        THEN find_neighbor_ON2(s1, nn)
        ELSE find_neighbor_ON1(s1, nn, sel.cells[1], sel.cells[2], sel.cells[3])

\* the call check_bound(para, atom)
call_check_bound(st) ==
    LET r == check_bound(N, st.NN)
    IN  [Ran(st, "check_bound") EXCEPT !.printed = r.printed, !.exited = r.exits]

\* lines 347-351
launch_gpu_apply_pbc(st) ==
    IF st.exited THEN st
    ELSE [Ran(st, "gpu_apply_pbc") EXCEPT
             !.x = gpu_apply_pbc(N, pbc[1], pbc[2], pbc[3], box, st.x)]

\* lines 329-333 and 354-358
launch_gpu_update_xyz0(st) ==
    IF st.exited THEN st
    ELSE [Ran(st, "gpu_update_xyz0") EXCEPT !.x0 = gpu_update_xyz0(N, st.x, st.x0)]

\* the driver with the periodic wrap also in its bootstrap branch
find_neighbor_driver_WrapAtBootstrap(st, is_first, nn, upd) ==
    IF is_first = 1
    THEN launch_gpu_update_xyz0(
             launch_gpu_apply_pbc(call_check_bound(find_neighbor(st, nn))))
    ELSE LET s1 == [Ran(st, "check_atom_distance") EXCEPT !.update = upd]
         IN  IF upd # 0
             THEN launch_gpu_update_xyz0(
                      launch_gpu_apply_pbc(
                          call_check_bound(find_neighbor(s1, nn))))
             ELSE s1

\* the driver with the snapshot of lines 354-358 moved out of the if
find_neighbor_driver_SnapshotAlways(st, is_first, nn, upd) ==
    IF is_first = 1
    THEN launch_gpu_update_xyz0(call_check_bound(find_neighbor(st, nn)))
    ELSE LET s1 == [Ran(st, "check_atom_distance") EXCEPT !.update = upd]
         IN  IF upd # 0
             THEN launch_gpu_update_xyz0(
                      launch_gpu_apply_pbc(
                          call_check_bound(find_neighbor(s1, nn))))
             ELSE [s1 EXCEPT !.x0 = gpu_update_xyz0(N, s1.x, s1.x0)]

\* the driver with the snapshot launched before the wrap
find_neighbor_driver_SnapshotFirst(st, is_first, nn, upd) ==
    IF is_first = 1
    THEN launch_gpu_update_xyz0(call_check_bound(find_neighbor(st, nn)))
    ELSE LET s1 == [Ran(st, "check_atom_distance") EXCEPT !.update = upd]
         IN  IF upd # 0
             THEN launch_gpu_apply_pbc(
                      launch_gpu_update_xyz0(
                          call_check_bound(find_neighbor(s1, nn))))
             ELSE s1

\* the driver with the wrap launched before check_bound
find_neighbor_driver_WrapBeforeCheck(st, is_first, nn, upd) ==
    IF is_first = 1
    THEN launch_gpu_update_xyz0(call_check_bound(find_neighbor(st, nn)))
    ELSE LET s1 == [Ran(st, "check_atom_distance") EXCEPT !.update = upd]
         IN  IF upd # 0
             THEN launch_gpu_update_xyz0(
                      call_check_bound(
                          launch_gpu_apply_pbc(find_neighbor(s1, nn))))
             ELSE s1

\* the driver without the snapshot of lines 354-358: the wrap is the last
\* operation of a rebuild
find_neighbor_driver_NoSnapshotAfterWrap(st, is_first, nn, upd) ==
    IF is_first = 1
    THEN launch_gpu_update_xyz0(call_check_bound(find_neighbor(st, nn)))
    ELSE LET s1 == [Ran(st, "check_atom_distance") EXCEPT !.update = upd]
         IN  IF upd # 0
             THEN launch_gpu_apply_pbc(call_check_bound(find_neighbor(s1, nn)))
             ELSE s1

\* the driver building a second time when check_bound rejects the first list
find_neighbor_driver_Retry(st, is_first, nn, upd) ==
    LET again(b) ==
            IF b.exited
            THEN call_check_bound(
                     find_neighbor([b EXCEPT !.exited = FALSE], [n \in Atoms |-> MN]))
            ELSE b
    IN  IF is_first = 1
        THEN launch_gpu_update_xyz0(again(call_check_bound(find_neighbor(st, nn))))
        ELSE LET s1 == [Ran(st, "check_atom_distance") EXCEPT !.update = upd]
             IN  IF upd # 0
                 THEN launch_gpu_update_xyz0(
                          launch_gpu_apply_pbc(
                              again(call_check_bound(find_neighbor(s1, nn)))))
                 ELSE s1

\* find_neighbor(para, atom, is_first), lines 321-361; upd is the value its
\* call of check_atom_distance returns, nn what its builder run leaves in NN
find_neighbor_driver(st, is_first, nn, upd) ==
    IF is_first = 1
    THEN launch_gpu_update_xyz0(call_check_bound(find_neighbor(st, nn)))
    ELSE LET s1 == [Ran(st, "check_atom_distance") EXCEPT !.update = upd]
         IN  IF upd # 0
             THEN launch_gpu_update_xyz0(
                      launch_gpu_apply_pbc(
                          call_check_bound(find_neighbor(s1, nn))))
             ELSE s1

Becomes(st) ==
    /\ x' = st.x /\ x0' = st.x0 /\ NN' = st.NN /\ xb' = st.xb
    /\ cells' = st.cells /\ exited' = st.exited /\ calls' = st.calls
    /\ update' = st.update /\ printed' = st.printed

(***************************************************************************)
(* The run: the integrator calls the driver once per step, first with      *)
(* is_first = 1, and moves the particles between calls.                    *)
(***************************************************************************)
IsFirstVals == {0, 1}
Deltas == {-1, 2}
PbcFlags == {<<a, b, c>> : a \in {0, 1}, b \in {0, 1}, c \in {0, 1}}
\* box lengths, periodicity and build of the runs explored
Configs ==
    {[box |-> <<4, 4, 4>>, pbc |-> <<1, 1, 1>>, debug |-> FALSE],
     [box |-> <<4, 4, 4>>, pbc |-> <<1, 0, 1>>, debug |-> FALSE],
     [box |-> <<2, 4, 4>>, pbc |-> <<1, 1, 1>>, debug |-> FALSE],
     [box |-> <<4, 4, 4>>, pbc |-> <<0, 0, 0>>, debug |-> TRUE]}
Zero == [n \in Atoms |-> <<0, 0, 0>>]

Init ==
    /\ \E c \in Configs : box = c.box /\ pbc = c.pbc /\ debug = c.debug
    /\ rc = 1
    /\ x = [n \in Atoms |-> <<n % box[1], n % box[2], n % box[3]>>]
    /\ x0 = Zero /\ xb = Zero /\ NN = [n \in Atoms |-> 0] /\ cells = <<>>
    /\ exited = FALSE /\ built = FALSE /\ arg = NoCall /\ calls = <<>>
    /\ update = NoUpdate /\ printed = <<>> /\ nmoves = 0 /\ hist = <<>>
    /\ OrdIdle

\* one step of the integrator on one coordinate
Move ==
    /\ ~exited /\ built /\ nmoves < MaxMoves
    /\ \E n \in Atoms, a \in Axes, d \in Deltas :
          x' = [x EXCEPT ![n][a] = @ + d]
    /\ nmoves' = nmoves + 1
    /\ arg' = NoCall /\ calls' = <<>> /\ update' = NoUpdate /\ printed' = <<>>
    /\ UNCHANGED <<x0, NN, xb, cells, box, pbc, rc, debug, exited, built, hist>>
    /\ UNCHANGED ordvars

\* one call find_neighbor(para, atom, is_first)
DriverCall ==
    /\ ~exited
    /\ \E is_first \in IsFirstVals :
          /\ is_first = 1 \/ built
          /\ \E upd \in (IF is_first = 1 THEN {NoUpdate}
                         ELSE check_atom_distance(N, x0, x)) :
             \E nn \in (IF is_first # 1 /\ upd = 0 THEN {NN} ELSE BuilderOutputs) :
                LET st == find_neighbor_driver(Cur, is_first, nn, upd)
                IN  Becomes(st)
          /\ built' = (built \/ is_first = 1)
          /\ arg' = is_first
    /\ UNCHANGED <<box, pbc, rc, debug, nmoves, hist>>
    /\ UNCHANGED ordvars

Next == Move \/ DriverCall

Spec == Init /\ [][Next]_vars

(***************************************************************************)
(* gpu_apply_pbc alone, launched MaxApply times on arbitrary positions     *)
(***************************************************************************)
PosRange == (-FarPos) .. FarPos

InitPbc ==
    /\ box = <<2, 1, 2>> /\ pbc \in PbcFlags /\ rc = 1 /\ debug = FALSE
    /\ \E n \in Atoms, a \in PosRange, b \in PosRange, c \in PosRange :
          x = [Zero EXCEPT ![n] = <<a, b, c>>]
    /\ x0 = Zero /\ xb = Zero /\ NN = [n \in Atoms |-> 0] /\ cells = <<>>
    /\ exited = FALSE /\ built = FALSE /\ arg = NoCall /\ calls = <<>>
    /\ update = NoUpdate /\ printed = <<>> /\ nmoves = 0 /\ hist = <<>>
    /\ OrdIdle

ApplyPbc ==
    /\ Len(hist) < MaxApply
    /\ x' = gpu_apply_pbc(N, pbc[1], pbc[2], pbc[3], box, x)
    /\ hist' = Append(hist, x)
    /\ UNCHANGED <<x0, NN, xb, cells, box, pbc, rc, debug, exited, built, arg,
                   calls, update, printed, nmoves>>
    /\ UNCHANGED ordvars

NextPbc == ApplyPbc

SpecPbc == InitPbc /\ [][NextPbc]_vars

(***************************************************************************)
(* find_neighbor(para, atom) alone, on arbitrary boxes and cutoffs         *)
(***************************************************************************)
MaxLen == 6
BigLen == 65536
SelLens == (1 .. MaxLen) \cup {BigLen}
SelCutoffs == {1, 2}

InitSel ==
    /\ box \in {<<a, b, c>> : a \in SelLens, b \in SelLens, c \in SelLens}
    /\ pbc \in PbcFlags /\ rc \in SelCutoffs /\ debug \in BOOLEAN
    /\ x = Zero /\ x0 = Zero /\ xb = Zero /\ NN = [n \in Atoms |-> 0]
    /\ cells = <<>> /\ exited = FALSE /\ built = FALSE /\ arg = NoCall
    /\ calls = <<>> /\ update = NoUpdate /\ printed = <<>> /\ nmoves = 0
    /\ hist = <<>> /\ OrdIdle

SelectCall ==
    /\ calls = <<>>
    /\ \E nn \in {[n \in Atoms |-> MN]} : Becomes(find_neighbor(Cur, nn))
    /\ UNCHANGED <<box, pbc, rc, debug, built, arg, nmoves, hist>>
    /\ UNCHANGED ordvars

NextSel == SelectCall

SpecSel == InitSel /\ [][NextSel]_vars

(***************************************************************************)
(* check_atom_distance alone, lines 131-163: the host launches both kernels *)
(* on the default stream without waiting and then blocks in cudaMemcpy; the *)
(* device runs the kernels of one stream in launch order, the blocks of a   *)
(* grid in any order.  The partial a block of stage 1 leaves is any value   *)
(* up to MaxPartial.                                                        *)
(***************************************************************************)
MaxBlocks == 3
MaxPartial == 1

\* para->N: the first and the last particle count of each number of blocks
OrdNs ==
    {(m - 1) * REDUCE_BLOCK + 1 : m \in 1 .. MaxBlocks}
    \cup {m * REDUCE_BLOCK : m \in 1 .. MaxBlocks}

\* M of line 134
NumBlocks(Nn) == (Nn - 1) \div REDUCE_BLOCK + 1

\* a device on which kernel k may run while an earlier launch is incomplete
StreamHead_AnyOrder(q, k) == \E i \in DOMAIN q : q[i] = k

\* kernel k is the oldest incomplete launch of the stream q: the one the
\* device may run
StreamHead(q, k) == q # <<>> /\ Head(q) = k

Complete(q, k) == SelectSeq(q, LAMBDA e : e # k)

InitOrd ==
    /\ box = <<4, 4, 4>> /\ pbc = <<1, 1, 1>> /\ rc = 1 /\ debug = FALSE
    /\ x = Zero /\ x0 = Zero /\ xb = Zero /\ NN = [n \in Atoms |-> 0]
    /\ cells = <<>> /\ exited = FALSE /\ built = TRUE /\ arg = NoCall
    /\ calls = <<>> /\ update = NoUpdate /\ printed = <<>> /\ nmoves = 0
    /\ hist = <<>>
    /\ npart \in OrdNs
    /\ hostpc = "malloc" /\ stream = <<>>
    /\ dev_s1 = [b \in 0 .. (NumBlocks(npart) - 1) |-> Unwritten]
    /\ dev_s2 = Unwritten /\ read2 = {}

OrdFrame ==
    UNCHANGED <<x, x0, NN, xb, cells, box, pbc, rc, debug, exited, built, arg,
                calls, printed, nmoves, hist, npart>>

\* line 144
Launch1 ==
    /\ hostpc = "malloc"
    /\ stream' = Append(stream, "check_atom_distance_1")
    /\ hostpc' = "launched_1"
    /\ OrdFrame /\ UNCHANGED <<update, dev_s1, dev_s2, read2>>

\* line 149
Launch2 ==
    /\ hostpc = "launched_1"
    /\ stream' = Append(stream, "check_atom_distance_2")
    /\ hostpc' = "launched_2"
    /\ OrdFrame /\ UNCHANGED <<update, dev_s1, dev_s2, read2>>

\* lines 86-89: thread 0 of block b of stage 1 writes g_sum[b]
Block1Finish ==
    /\ StreamHead(stream, "check_atom_distance_1")
    /\ \E b \in DOMAIN dev_s1, v \in 0 .. MaxPartial :
          /\ dev_s1[b] = Unwritten
          /\ dev_s1' = [dev_s1 EXCEPT ![b] = v]
    /\ OrdFrame /\ UNCHANGED <<update, hostpc, stream, dev_s2, read2>>

\* all blocks of stage 1 have run to their end
Kernel1Complete ==
    /\ StreamHead(stream, "check_atom_distance_1")
    /\ \A b \in DOMAIN dev_s1 : dev_s1[b] # Unwritten
    /\ stream' = Complete(stream, "check_atom_distance_1")
    /\ OrdFrame /\ UNCHANGED <<update, hostpc, dev_s1, dev_s2, read2>>

\* lines 104-111: a thread of stage 2 reads g_sum_i[n], n < M
Read2 ==
    /\ StreamHead(stream, "check_atom_distance_2")
    /\ \E n \in 0 .. (NumBlocks(npart) - 1) :
          /\ \A p \in read2 : p[1] # n
          /\ read2' = read2 \cup {<<n, dev_s1[n]>>}
    /\ OrdFrame /\ UNCHANGED <<update, hostpc, stream, dev_s1, dev_s2>>

\* lines 113-123: stage 2 reduces what it read and writes g_sum_o[0]
Finish2 ==
    /\ StreamHead(stream, "check_atom_distance_2")
    /\ {p[1] : p \in read2} = 0 .. (NumBlocks(npart) - 1)
    /\ LET g == [n \in 0 .. (NumBlocks(npart) - 1) |->
                    (CHOOSE p \in read2 : p[1] = n)[2]]
       IN  dev_s2' \in check_atom_distance_2(NumBlocks(npart), g)
    /\ stream' = Complete(stream, "check_atom_distance_2")
    /\ OrdFrame /\ UNCHANGED <<update, hostpc, dev_s1, read2>>

\* lines 153-162: cudaMemcpy returns when the stream is empty; the host then
\* reads cpu_s2[0] and returns it
HostCopy ==
    /\ hostpc = "launched_2"
    /\ stream = <<>>
    /\ update' = dev_s2
    /\ hostpc' = "returned"
    /\ OrdFrame /\ UNCHANGED <<stream, dev_s1, dev_s2, read2>>

NextOrd ==
    \/ Launch1 \/ Launch2 \/ Block1Finish \/ Kernel1Complete
    \/ Read2 \/ Finish2 \/ HostCopy

SpecOrd == InitOrd /\ [][NextOrd]_vars

(***************************************************************************)
(* Properties                                                              *)
(***************************************************************************)
Builders == {"find_neighbor_ON1", "find_neighbor_ON2"}

\* the last step was a driver call that returned to its caller
Returned == calls # <<>> /\ ~exited

Exceeds(n) == DispSq(x[n], x0[n]) > d2

\* C1: at every non-aborting return of the driver every particle's squared
\* displacement from its reference position is at most d2, and the reference
\* positions are the positions the list was built from, up to one box length
\* on a periodic axis.
C1_ReturnWithinTolerance ==
    Returned =>
        /\ \A n \in Atoms : DispSq(x[n], x0[n]) <= d2
        /\ \A n \in Atoms, a \in Axes :
              (x0[n][a] - xb[n][a]) \in
                  (IF pbc[a] = 1 THEN {0, box[a], 0 - box[a]} ELSE {0})

\* C2: check_atom_distance returns nonzero if and only if some particle's
\* squared displacement is strictly greater than d2.
C2_MonitorExact ==
    [][(calls' # <<>> /\ calls'[1] = "check_atom_distance")
          => ((update' # 0) <=> (\E n \in Atoms : Exceeds(n)))]_vars

\* C3: whenever the driver has returned, every neighbor count is at most MN;
\* a list with a count above MN exists only in a process that check_bound
\* has terminated, with nothing run after check_bound.
C3_CapacityHeld ==
    /\ (built /\ ~exited) => \A n \in Atoms : NN[n] <= MN
    /\ (\E n \in Atoms : NN[n] > MN) =>
          exited /\ calls # <<>> /\ calls[Len(calls)] = "check_bound"

C3_Witness ==
    /\ Returned /\ Len(calls) = 6 /\ calls[1] = "check_atom_distance"
    /\ \A n \in Atoms : NN[n] = MN

BootstrapOps(b) == <<"find_neighbor", b, "check_bound", "gpu_update_xyz0">>
RebuildOps(b) ==
    <<"check_atom_distance", "find_neighbor", b, "check_bound",
      "gpu_apply_pbc", "gpu_update_xyz0">>

\* C4 as stated: a bootstrap call always runs selection, one builder,
\* check_bound and the snapshot, in this order and nothing else; the current
\* positions are unchanged and the reference positions equal them.
C4_BootstrapAlways ==
    [][arg' = 1 =>
          /\ \E b \in Builders : calls' = BootstrapOps(b)
          /\ x' = x
          /\ x0' = x]_vars

\* C4 amended: a bootstrap call runs selection, one builder and check_bound in
\* this order, never the displacement check nor the wrap, and leaves the
\* current positions unchanged; if check_bound passes, the snapshot follows and
\* on return x0 = x; if it fails, the process exits with x0 unchanged.
C4_Bootstrap ==
    [][arg' = 1 =>
          /\ x' = x
          /\ \/ /\ ~exited'
                /\ \E b \in Builders : calls' = BootstrapOps(b)
                /\ x0' = x
                /\ \A n \in Atoms : NN'[n] <= MN
             \/ /\ exited'
                /\ \E b \in Builders : calls' = SubSeq(BootstrapOps(b), 1, 3)
                /\ x0' = x0
                /\ \E n \in Atoms : NN'[n] > MN]_vars

C4_Witness ==
    /\ arg = 1 /\ Returned /\ nmoves > 0 /\ x0 = x
    /\ \E n \in Atoms, a \in Axes : pbc[a] = 1 /\ x[n][a] < 0

\* C5: a steady-state call in which check_atom_distance returns 0 leaves the
\* neighbor list, the counts, the positions and the reference positions
\* unchanged and runs nothing but the displacement check; a steady-state call
\* with no motion since the snapshot is such a call.
C5_NoRebuildFrame ==
    [][/\ (arg' # NoCall /\ arg' # 1 /\ update' = 0) =>
             /\ UNCHANGED <<x, x0, NN, xb, cells>>
             /\ calls' = <<"check_atom_distance">>
             /\ ~exited'
       /\ (arg' # NoCall /\ arg' # 1 /\ x = x0) => update' = 0]_vars

C5_Witness ==
    /\ arg = 0 /\ calls = <<"check_atom_distance">> /\ update = 0
    /\ \E n \in Atoms : DispSq(x[n], x0[n]) = d2
    /\ \A n \in Atoms : DispSq(x[n], x0[n]) <= d2

\* the positions q are the positions p with each coordinate kept or shifted by
\* one box length on a periodic axis
WrappedFrom(q, p) ==
    \A n \in Atoms, a \in Axes :
        (q[n][a] - p[n][a]) \in
            (IF pbc[a] = 1 THEN {0, box[a], 0 - box[a]} ELSE {0})

\* C6 as stated: a steady-state call with rebuild due runs exactly selection,
\* one builder, check_bound, the wrap and the snapshot, in this order, none
\* skipped.
C6_RebuildAlways ==
    [][(arg' # NoCall /\ arg' # 1 /\ update' # 0) =>
          /\ \E b \in Builders : calls' = RebuildOps(b)
          /\ xb' = x /\ WrappedFrom(x', x) /\ x0' = x']_vars

\* C6 amended: the same, unless check_bound finds a count above MN: then the
\* process exits after check_bound, and neither wrap nor snapshot runs.
C6_Rebuild ==
    [][(arg' # NoCall /\ arg' # 1 /\ update' # 0) =>
          /\ xb' = x
          /\ \/ /\ ~exited'
                /\ \E b \in Builders : calls' = RebuildOps(b)
                /\ WrappedFrom(x', x) /\ x0' = x'
                /\ \A n \in Atoms : NN'[n] <= MN
             \/ /\ exited'
                /\ \E b \in Builders : calls' = SubSeq(RebuildOps(b), 1, 4)
                /\ x' = x /\ x0' = x0
                /\ \E n \in Atoms : NN'[n] > MN]_vars

C6_Witness ==
    /\ arg = 0 /\ update # 0 /\ Returned /\ Len(calls) = 6
    /\ x # xb /\ x0 = x

\* the wrap ran in the last call, in a steady-state call with rebuild due,
\* after a builder and after a check_bound that passed
WrapInRebuild ==
    /\ arg # NoCall /\ arg # 1 /\ update # 0 /\ ~exited
    /\ Len(calls) >= 5 /\ calls[3] \in Builders /\ calls[4] = "check_bound"
    /\ calls[5] = "gpu_apply_pbc"
    /\ \A i \in DOMAIN calls : calls[i] = "gpu_apply_pbc" => i = 5
    /\ \A n \in Atoms : NN[n] <= MN

\* C7: gpu_apply_pbc runs only in a driver call in which a builder has run
\* and check_bound has passed, never in a bootstrap call or a call without
\* rebuild; the driver changes a current position in no other call.
C7_WrapOnlyAfterRebuild ==
    [][/\ (\E i \in DOMAIN calls' : calls'[i] = "gpu_apply_pbc") => WrapInRebuild'
       /\ (x' # x) => (arg' = NoCall \/ WrapInRebuild')]_vars

C7_Witness ==
    /\ WrapInRebuild /\ nmoves = MaxMoves
    /\ \E n \in Atoms : x[n][1] # xb[n][1]
    /\ \E a \in Axes : pbc[a] = 0

\* the cell count of axis a as the claim defines it
AxisCount(a) == IF pbc[a] # 0 THEN box[a] \div rc ELSE 1

\* the product of three counts >= 0 is below lim
ProductBelow(c1, c2, c3, lim) ==
    \/ c1 = 0 \/ c2 = 0 \/ c3 = 0
    \/ c1 < lim /\ c2 < lim /\ c3 < lim /\ c1 * c2 * c3 < lim

\* C8: with fewer than 3 cells on a periodic axis, or a product of the three
\* cell counts below NUM_OF_CELLS, find_neighbor(para, atom) runs
\* find_neighbor_ON2 and not find_neighbor_ON1; so does every box with no
\* periodic axis.
C8_FallbackToON2 ==
    calls # <<>> =>
        /\ ( \/ \E a \in Axes : pbc[a] # 0 /\ box[a] \div rc < 3
             \/ ProductBelow(AxisCount(1), AxisCount(2), AxisCount(3), NUM_OF_CELLS) )
           => calls = <<"find_neighbor", "find_neighbor_ON2">>
        /\ pbc = <<0, 0, 0>> => calls = <<"find_neighbor", "find_neighbor_ON2">>

C8_Witness ==
    /\ calls = <<"find_neighbor", "find_neighbor_ON2">> /\ ~debug
    /\ pbc = <<1, 1, 1>> /\ \A a \in Axes : AxisCount(a) >= 3
    /\ ProductBelow(AxisCount(1), AxisCount(2), AxisCount(3), NUM_OF_CELLS)

Abs(v) == IF v < 0 THEN 0 - v ELSE v

\* the positions before the last lone launch of gpu_apply_pbc
Before == hist[Len(hist)]

\* C9 as stated: on a periodic axis a coordinate in [-L, 0) or [L, 2L) is
\* moved into [0, L) by exactly one L, a coordinate in [0, L) is untouched; a
\* coordinate on a non-periodic axis is untouched; no coordinate moves by
\* more than one L.
C9_WrapIntoHalfOpenBox ==
    hist # <<>> =>
        \A n \in Atoms, a \in Axes :
            LET l == box[a]
                c == Before[n][a]
                r == x[n][a]
            IN  /\ (pbc[a] = 1 /\ 0 - l <= c /\ c < 0) => (r = c + l /\ 0 <= r /\ r < l)
                /\ (pbc[a] = 1 /\ l <= c /\ c < 2 * l) => (r = c - l /\ 0 <= r /\ r < l)
                /\ (pbc[a] = 1 /\ 0 <= c /\ c < l) => r = c
                /\ pbc[a] # 1 => r = c
                /\ Abs(r - c) <= l

\* C9 amended: on a periodic axis a coordinate in [-L, 0) is moved into
\* [0, L) by adding one L, a coordinate in (L, 2L) into (0, L) by subtracting
\* one L, and a coordinate in [0, L], exactly L included, is untouched; a
\* coordinate on a non-periodic axis is untouched; no coordinate moves by
\* more than one L.
C9_WrapIntoClosedBox ==
    hist # <<>> =>
        \A n \in Atoms, a \in Axes :
            LET l == box[a]
                c == Before[n][a]
                r == x[n][a]
            IN  /\ (pbc[a] = 1 /\ 0 - l <= c /\ c < 0) => (r = c + l /\ 0 <= r /\ r < l)
                /\ (pbc[a] = 1 /\ l < c /\ c < 2 * l) => (r = c - l /\ 0 < r /\ r < l)
                /\ (pbc[a] = 1 /\ 0 <= c /\ c <= l) => r = c
                /\ pbc[a] # 1 => r = c
                /\ Abs(r - c) <= l

C9_Witness ==
    /\ Len(hist) = 1 /\ pbc = <<1, 1, 1>>
    /\ \E n \in Atoms :
          /\ hist[1][n][1] = box[1] /\ x[n][1] = box[1]
          /\ hist[1][n][2] < 0 /\ x[n][2] = hist[1][n][2] + box[2]
          /\ hist[1][n][3] > box[3] /\ x[n][3] = hist[1][n][3] - box[3]

\* C10 as stated: two launches of gpu_apply_pbc leave the positions one launch
\* leaves.
C10_WrapIdempotent ==
    Len(hist) = 2 => x = hist[2]

\* every coordinate on a periodic axis lies within one box length of the box
WithinOneBox(p) ==
    \A n \in Atoms, a \in Axes :
        pbc[a] = 1 => (0 - box[a] <= p[n][a] /\ p[n][a] <= 2 * box[a])

\* C10 amended: on positions whose periodic-axis coordinates all lie in
\* [-L, 2L], two launches of gpu_apply_pbc leave the positions one launch
\* leaves.
C10_WrapIdempotentNearBox ==
    (Len(hist) = 2 /\ WithinOneBox(hist[1])) => x = hist[2]

C10_Witness ==
    /\ Len(hist) = 2 /\ WithinOneBox(hist[1]) /\ hist[1] # hist[2]
    /\ \E n \in Atoms, a \in Axes : pbc[a] = 1 /\ hist[1][n][a] = 2 * box[a]

\* the diagnostics due for the counts nn: one <<index, count, MN>> for every
\* particle with a count above MN, by ascending index
Diagnostics(nn) ==
    SelectSeq([i \in 1 .. N |-> <<i - 1, nn[i - 1], MN>>], LAMBDA e : e[2] > MN)

CheckBoundRan == \E i \in DOMAIN calls : calls[i] = "check_bound"

\* C11: when a builder run leaves counts above MN, check_bound prints one
\* diagnostic (index, count, MN) for every such particle, the last one
\* included, and then the process exits with check_bound its last operation;
\* when no count is above MN it prints nothing and the call goes on.
C11_AllOffendersReported ==
    /\ CheckBoundRan =>
          /\ printed = Diagnostics(NN)
          /\ exited <=> (\E n \in Atoms : NN[n] > MN)
          /\ exited => calls[Len(calls)] = "check_bound"
          /\ ~exited => calls[Len(calls)] = "gpu_update_xyz0"
    /\ ~CheckBoundRan => (printed = <<>> /\ ~exited)

C11_Witness ==
    /\ exited /\ Len(printed) = N /\ printed[N] = <<N - 1, MaxNN, MN>>
    /\ calls[1] = "check_atom_distance"

\* a process state with no history: all positions, reference positions and
\* counts zero
Blank ==
    [x |-> Zero, x0 |-> Zero, NN |-> [n \in Atoms |-> 0], xb |-> Zero,
     cells |-> <<>>, exited |-> FALSE, calls |-> <<>>, update |-> NoUpdate,
     printed |-> <<>>]

BuilderRan == \E i \in DOMAIN calls : calls[i] \in Builders

\* C12: the builder and the three cell counts find_neighbor(para, atom)
\* chooses depend on box lengths, periodicity flags and cutoff alone: called
\* in the current state it chooses what it chooses in a state with no
\* history, whatever the positions, reference positions and counts are; the
\* choice the last call made is that one; and up to the builder's start
\* positions and reference positions are unmodified.
C12_SelectionPure ==
    LET here == find_neighbor(Cur, NN)
        blank == find_neighbor(Blank, NN)
    IN  /\ here.calls = blank.calls /\ here.cells = blank.cells
        /\ here.x = x /\ here.x0 = x0 /\ here.xb = x
        /\ BuilderRan =>
              /\ cells = blank.cells
              /\ \E i \in DOMAIN calls : calls[i] = blank.calls[2]

C12_Witness ==
    /\ arg = 0 /\ update # 0 /\ Returned /\ nmoves = MaxMoves
    /\ calls[3] = "find_neighbor_ON1" /\ cells = <<4, 4, 4>>
    /\ NN[0] = MN /\ x0 # Zero /\ x0 # xb

\* f[i] + f[i + 1] + ... over the indices of f from i on
RECURSIVE SumFrom(_, _)
SumFrom(f, i) == IF i \in DOMAIN f THEN f[i] + SumFrom(f, i + 1) ELSE 0

\* the per-thread contributions of the current positions, lines 66-77
CurFlags == Flags1(0, N, d2, x0, x)

\* C13: under every interleaving of the block's threads, s_sum[0] at the end
\* of the reduction equals the sum of the initial per-thread contributions,
\* in check_atom_distance_1 (on the flags of the current positions) and in
\* check_atom_distance_2 (on the same values taken as N per-block partials),
\* whenever the driver can be called in steady state.
C13_ReductionExact ==
    (built /\ ~exited) =>
        /\ \A r \in ReduceOutcomes(CurFlags) : r = SumFrom(CurFlags, 0)
        /\ \A r \in check_atom_distance_2(N, CurFlags) : r = SumFrom(CurFlags, 0)

\* C14: stage 2 reads g_sum_i[n] only for n < M and only after the block n of
\* stage 1 has written it; when stage 2 writes its result it has read every
\* one of the M partials; and the host has the scalar stage 2 wrote when
\* check_atom_distance returns.
C14_StagesInOrder ==
    /\ \A p \in read2 :
          /\ p[1] \in 0 .. (NumBlocks(npart) - 1)
          /\ p[2] # Unwritten /\ p[2] = dev_s1[p[1]]
    /\ dev_s2 # Unwritten =>
          {p[1] : p \in read2} = 0 .. (NumBlocks(npart) - 1)
    /\ hostpc = "returned" => (dev_s2 # Unwritten /\ update = dev_s2)

C14_Witness ==
    /\ hostpc = "returned" /\ NumBlocks(npart) = MaxBlocks
    /\ update > 0 /\ \E b \in DOMAIN dev_s1 : dev_s1[b] = 0

\* C15: the scalar check_atom_distance returns equals the number of
\* particles n < N whose squared displacement exceeds d2.
C15_CountExact ==
    [][(calls' # <<>> /\ calls'[1] = "check_atom_distance")
          => update' = Cardinality({n \in Atoms : Exceeds(n)})]_vars

\* the separation of particles i and j along axis a in the positions p: the
\* nearest-image separation on a periodic axis
AxisSep(p, i, j, a) ==
    LET dv == p[i][a] - p[j][a]
    IN  IF pbc[a] = 1 THEN Min(dv % box[a], box[a] - (dv % box[a])) ELSE Abs(dv)

PairDistSq(p, i, j) ==
    AxisSep(p, i, j, 1) * AxisSep(p, i, j, 1)
    + AxisSep(p, i, j, 2) * AxisSep(p, i, j, 2)
    + AxisSep(p, i, j, 3) * AxisSep(p, i, j, 3)

\* two distances with squares A and B differ by at most 2 * sqrt(d2)
WithinSkin(A, B) ==
    \/ A + B - 4 * d2 <= 0
    \/ (A + B - 4 * d2) * (A + B - 4 * d2) <= 4 * A * B

\* C16: whenever the driver returns without rebuilding, the distance between
\* any two particles differs from their distance in the positions the list
\* was built from by at most 2 * sqrt(d2), the skin distance.
C16_PairDriftWithinSkin ==
    (arg = 0 /\ Returned /\ update = 0) =>
        \A i \in Atoms, j \in Atoms :
            WithinSkin(PairDistSq(x, i, j), PairDistSq(xb, i, j))

\* the number of entries of the call log cs that lie in the set S
Count(cs, S) == Cardinality({i \in DOMAIN cs : cs[i] \in S})

\* C17: every driver call runs a builder at most once and check_bound at
\* most once; a call whose builder leaves a count above MN ends in exit(1)
\* inside check_bound, with neither wrap nor snapshot run and positions and
\* reference positions as they were; and nothing runs in an exited process.
C17_NoRetry ==
    [][/\ ~exited
       /\ Count(calls', Builders) <= 1
       /\ Count(calls', {"check_bound"}) <= 1
       /\ exited' <=> (\E n \in Atoms : NN'[n] > MN)
       /\ exited' =>
             /\ calls'[Len(calls')] = "check_bound"
             /\ Count(calls', {"gpu_apply_pbc", "gpu_update_xyz0"}) = 0
             /\ x' = x /\ x0' = x0]_vars

C17_Witness ==
    /\ exited /\ arg = 0 /\ Len(calls) = 4 /\ x # x0
    /\ \E n \in Atoms, a \in Axes :
          pbc[a] = 1 /\ (x[n][a] < 0 \/ x[n][a] > box[a])

\* C18: in a build without DEBUG, when every periodic axis has at least 3
\* cells and the product of the three cell counts, as a number, is at least
\* NUM_OF_CELLS, find_neighbor(para, atom) runs find_neighbor_ON1 with these
\* three counts; and every selection runs exactly one builder.
C18_ON1WhenEligible ==
    calls # <<>> =>
        /\ Count(calls, Builders) = 1
        /\ ( /\ ~debug
             /\ \A a \in Axes : pbc[a] # 0 => AxisCount(a) >= 3
             /\ ~ProductBelow(AxisCount(1), AxisCount(2), AxisCount(3), NUM_OF_CELLS) )
           => /\ calls = <<"find_neighbor", "find_neighbor_ON1">>
              /\ cells = <<AxisCount(1), AxisCount(2), AxisCount(3)>>

\* the last step was a bootstrap or rebuild call that returned
RebuiltAndReturned == Returned /\ Count(calls, Builders) = 1

\* C19: a steady-state call that follows a returned bootstrap or rebuild
\* call with no particle motion in between finds no rebuild due and runs the
\* displacement check alone, also when the rebuild shifted particles by a
\* box length; and the reference positions change only in a call that ends
\* with the snapshot, which leaves them equal to the current positions.
C19_WrapCausesNoRebuild ==
    [][/\ (RebuiltAndReturned /\ arg' # NoCall /\ arg' # 1) =>
             (update' = 0 /\ calls' = <<"check_atom_distance">>)
       /\ (x0' # x0) =>
             /\ calls' # <<>> /\ calls'[Len(calls')] = "gpu_update_xyz0"
             /\ Count(calls', Builders) = 1
             /\ x0' = x']_vars

C19_Witness ==
    /\ arg = 0 /\ update = 0 /\ calls = <<"check_atom_distance">>
    /\ x = x0 /\ nmoves > 0
    /\ \E n \in Atoms, a \in Axes : Abs(x0[n][a] - xb[n][a]) = box[a]

====
